---- MODULE Spec2Model ----
(***************************************************************************)
(* Model of scripts/policy_lint.py: the two validators                      *)
(* (validate_policy_structure, validate_policy_content), the per-file       *)
(* orchestration (lint_policy_file) and the command-line driver (main).     *)
(*                                                                         *)
(* A decoded YAML document is a tagged dynamic value.  Text is a sequence   *)
(* of one-character strings, so that Python's substring test, str() and     *)
(* str.lower() are computed and not assumed.                                *)
(***************************************************************************)
EXTENDS Integers, Sequences, FiniteSets, TLC

\* Bounds of the model: the length of a rules list, the number of entries
\* of the directory, the number of patterns on the command line.
MaxRules == 2
MaxFiles == 2
MaxArgs == 1

VARIABLES
    argv,             \* args.files: the patterns given on the command line
    fs,               \* the directory: fs[i] is the entry of path i
    pc,               \* position of the process
    pattern_i,        \* index in argv of the next pattern of the outer loop
    matches,          \* what is left of the current pattern's glob results
    filepath,         \* the path being processed (0: none yet)
    document,         \* the decoded document handed to a validator
    errors,           \* the error list returned by the last call
    raised,           \* whether the last direct validator call raised
    calls,            \* the validators the last call ran, in order
    all_errors,       \* main's all_errors
    files_processed,  \* main's files_processed
    linted,           \* the paths handed to lint_policy_file, in order
    report,           \* the error lines printed by the final report
    status            \* the process exit status (-1: still running)

vars == <<argv, fs, pc, pattern_i, matches, filepath, document, errors, raised,
          calls, all_errors, files_processed, linted, report, status>>

----------------------------------------------------------------------------
\* Text literals of the program.

sName == <<"n","a","m","e">>
sVersion == <<"v","e","r","s","i","o","n">>
sRules == <<"r","u","l","e","s">>
sType == <<"t","y","p","e">>
sId == <<"i","d">>
sDescription == <<"d","e","s","c","r","i","p","t","i","o","n">>
sSeverity == <<"s","e","v","e","r","i","t","y">>
sLow == <<"l","o","w">>
sMedium == <<"m","e","d","i","u","m">>
sHigh == <<"h","i","g","h">>
sCritical == <<"c","r","i","t","i","c","a","l">>
sSecurity == <<"s","e","c","u","r","i","t","y">>
sCompliance == <<"c","o","m","p","l","i","a","n","c","e">>
sPerformance == <<"p","e","r","f","o","r","m","a","n","c","e">>
sObservability == <<"o","b","s","e","r","v","a","b","i","l","i","t","y">>
sfxYaml == <<".","y","a","m","l">>
sfxYml == <<".","y","m","l">>

\* Variant: "rules" left out of the required keys.
required_keys_without_rules == <<sName, sVersion>>

required_keys == <<sName, sVersion, sRules>>
valid_severities == <<sLow, sMedium, sHigh, sCritical>>
\* Variant: "observability" left out of the valid types.
valid_types_without_observability == <<sSecurity, sCompliance, sPerformance>>

valid_types == <<sSecurity, sCompliance, sPerformance, sObservability>>
yaml_suffixes == <<sfxYaml, sfxYml>>

----------------------------------------------------------------------------
\* Dynamic values: what yaml.safe_load returns.

VNull == [t |-> "null"]
VBool(b) == [t |-> "bool", b |-> b]
VInt(n) == [t |-> "int", n |-> n]
VStr(s) == [t |-> "str", s |-> s]
VList(e) == [t |-> "list", e |-> e]
Item(k, v) == [k |-> k, v |-> v]
VMap(items) == [t |-> "map", items |-> items]

\* isinstance(v, str), isinstance(v, list), isinstance(v, dict)
IsStr(v) == v.t = "str"
IsList(v) == v.t = "list"
IsDict(v) == v.t = "map"

\* Python truthiness: "not v" is ~Truthy(v).
Truthy(v) ==
    CASE v.t = "null" -> FALSE
      [] v.t = "bool" -> v.b
      [] v.t = "int" -> v.n # 0
      [] v.t = "str" -> Len(v.s) > 0
      [] v.t = "list" -> Len(v.e) > 0
      [] v.t = "map" -> Len(v.items) > 0

\* sub in s, for two strings
IsSubstring(sub, s) ==
    \E i \in 0..(Len(s) - Len(sub)) : SubSeq(s, i + 1, i + Len(sub)) = sub

\* Whether "key in v" is defined at all: int, bool and None are not
\* containers, and the test raises TypeError.
SupportsIn(v) == v.t \in {"map", "list", "str"}

\* key in v, for a string literal key and a container v
PyIn(key, v) ==
    CASE v.t = "map" -> \E i \in 1..Len(v.items) : v.items[i].k = VStr(key)
      [] v.t = "list" -> \E i \in 1..Len(v.e) : v.e[i] = VStr(key)
      [] v.t = "str" -> IsSubstring(key, v.s)
      [] OTHER -> FALSE

\* Whether v[key] is defined for a string key: only a mapping takes one;
\* a str or a list raises TypeError.
SupportsGetItem(v) == v.t = "map"

\* v[key], for a mapping v that holds key
GetItem(v, key) ==
    v.items[CHOOSE i \in 1..Len(v.items) : v.items[i].k = VStr(key)].v

\* v in lst, for a list lst of string literals (list membership is by ==)
InStrList(v, lst) == v.t = "str" /\ \E i \in 1..Len(lst) : lst[i] = v.s

----------------------------------------------------------------------------
\* str() of a value, as the f-strings of the messages format it.

DigitChars == <<"0","1","2","3","4","5","6","7","8","9">>

RECURSIVE Digits(_)
Digits(n) ==
    IF n < 10 THEN <<DigitChars[n + 1]>>
    ELSE Digits(n \div 10) \o <<DigitChars[(n % 10) + 1]>>

RECURSIVE PyRepr(_)
RECURSIVE JoinElems(_)
RECURSIVE JoinItems(_)

JoinElems(e) ==
    IF Len(e) = 0 THEN <<>>
    ELSE IF Len(e) = 1 THEN PyRepr(e[1])
    ELSE PyRepr(e[1]) \o <<",", " ">> \o JoinElems(Tail(e))

JoinItems(items) ==
    IF Len(items) = 0 THEN <<>>
    ELSE LET one == PyRepr(items[1].k) \o <<":", " ">> \o PyRepr(items[1].v)
         IN  IF Len(items) = 1 THEN one
             ELSE one \o <<",", " ">> \o JoinItems(Tail(items))

PyRepr(v) ==
    CASE v.t = "null" -> <<"N","o","n","e">>
      [] v.t = "bool" ->
           IF v.b THEN <<"T","r","u","e">> ELSE <<"F","a","l","s","e">>
      [] v.t = "int" -> IF v.n < 0 THEN <<"-">> \o Digits(-v.n) ELSE Digits(v.n)
      [] v.t = "str" -> <<"'">> \o v.s \o <<"'">>
      [] v.t = "list" -> <<"[">> \o JoinElems(v.e) \o <<"]">>
      [] v.t = "map" -> <<"{">> \o JoinItems(v.items) \o <<"}">>

PyStr(v) == IF v.t = "str" THEN v.s ELSE PyRepr(v)

----------------------------------------------------------------------------
\* Error entries.  An entry stands for the formatted line
\* "{filename}: <kind, with idx and text filled in>"; idx is -1 and text is
\* empty where the message has none.

Err(filename, kind, idx, text) ==
    [file |-> filename, kind |-> kind, idx |-> idx, text |-> text]

\* What a call did: returned an error list, or raised.
Returned(errs) == [raised |-> FALSE, errors |-> errs]
Raised == [raised |-> TRUE, errors |-> <<>>]

----------------------------------------------------------------------------
\* validate_policy_structure

\* The loop over required_keys: one entry per absent key, in list order.
RECURSIVE MissingKeys(_, _, _)
MissingKeys(policy, filename, keys) ==
    IF Len(keys) = 0 THEN <<>>
    ELSE (IF ~PyIn(keys[1], policy)
          THEN <<Err(filename, "Missing required key", -1, keys[1])>>
          ELSE <<>>)
         \o MissingKeys(policy, filename, Tail(keys))

NameErrors(policy, filename) ==
    IF PyIn(sName, policy) /\ ~IsStr(GetItem(policy, sName))
    THEN <<Err(filename, "'name' must be a string", -1, <<>>)>>
    ELSE <<>>

VersionErrors(policy, filename) ==
    IF PyIn(sVersion, policy) /\ ~IsStr(GetItem(policy, sVersion))
    THEN <<Err(filename, "'version' must be a string", -1, <<>>)>>
    ELSE <<>>

\* Variant: the severity is read with a default and tested by a second,
\* independent "if", so an absent severity is reported as invalid too.
SeverityErrorsIndependentIf(rule, i, filename) ==
    (IF ~PyIn(sSeverity, rule)
     THEN <<Err(filename, "Rule missing field", i, sSeverity)>> ELSE <<>>)
    \o (IF ~PyIn(sSeverity, rule)
        THEN <<Err(filename, "Rule invalid severity", i, PyStr(VNull))>>
        ELSE IF ~InStrList(GetItem(rule, sSeverity), valid_severities)
        THEN <<Err(filename, "Rule invalid severity", i,
                   PyStr(GetItem(rule, sSeverity)))>>
        ELSE <<>>)

\* The severity branch of one mapping rule: "missing" and "invalid" are the
\* two arms of one if/elif.
SeverityErrors(rule, i, filename) ==
    IF ~PyIn(sSeverity, rule)
    THEN <<Err(filename, "Rule missing field", i, sSeverity)>>
    ELSE IF ~InStrList(GetItem(rule, sSeverity), valid_severities)
    THEN <<Err(filename, "Rule invalid severity", i,
               PyStr(GetItem(rule, sSeverity)))>>
    ELSE <<>>

\* The body of the loop over the rules, for the rule at 0-based index i.
RuleErrors(rule, i, filename) ==
    IF ~IsDict(rule)
    THEN <<Err(filename, "Rule must be a dictionary", i, <<>>)>>
    ELSE (IF ~PyIn(sId, rule)
          THEN <<Err(filename, "Rule missing field", i, sId)>> ELSE <<>>)
         \o (IF ~PyIn(sDescription, rule)
             THEN <<Err(filename, "Rule missing field", i, sDescription)>>
             ELSE <<>>)
         \o SeverityErrors(rule, i, filename)

\* enumerate(policy["rules"]), from 0-based index i on
RECURSIVE RuleListErrors(_, _, _)
RuleListErrors(rules, i, filename) ==
    IF i >= Len(rules) THEN <<>>
    ELSE RuleErrors(rules[i + 1], i, filename)
         \o RuleListErrors(rules, i + 1, filename)

RulesErrors(policy, filename) ==
    IF ~PyIn(sRules, policy) THEN <<>>
    ELSE IF ~IsList(GetItem(policy, sRules))
    THEN <<Err(filename, "'rules' must be a list", -1, <<>>)>>
    ELSE RuleListErrors(GetItem(policy, sRules).e, 0, filename)

\* The function.  "key not in policy" raises TypeError when policy is no
\* container, and policy["name"], policy["version"], policy["rules"] raise
\* TypeError when the key test succeeded on a str or a list.
ValidatePolicyStructure(policy, filename) ==
    IF ~SupportsIn(policy) THEN Raised
    ELSE IF PyIn(sName, policy) /\ ~SupportsGetItem(policy) THEN Raised
    ELSE IF PyIn(sVersion, policy) /\ ~SupportsGetItem(policy) THEN Raised
    ELSE IF PyIn(sRules, policy) /\ ~SupportsGetItem(policy) THEN Raised
    ELSE Returned(MissingKeys(policy, filename, required_keys)
                  \o NameErrors(policy, filename)
                  \o VersionErrors(policy, filename)
                  \o RulesErrors(policy, filename))

----------------------------------------------------------------------------
\* validate_policy_content

TypeErrors(policy, filename) ==
    IF PyIn(sType, policy) /\ ~InStrList(GetItem(policy, sType), valid_types)
    THEN <<Err(filename, "Invalid policy type", -1,
               PyStr(GetItem(policy, sType)))>>
    ELSE <<>>

\* Variant: the emptiness check appends its entry and does not return.
ValidatePolicyContentNoReturn(policy, filename) ==
    LET empty == IF ~Truthy(policy)
                 THEN <<Err(filename, "Policy file is empty", -1, <<>>)>>
                 ELSE <<>>
    IN  IF ~IsDict(policy)
        THEN Returned(empty
                      \o <<Err(filename, "Policy must be a YAML object", -1, <<>>)>>)
        ELSE Returned(empty \o TypeErrors(policy, filename))

ValidatePolicyContent(policy, filename) ==
    IF ~Truthy(policy)
    THEN Returned(<<Err(filename, "Policy file is empty", -1, <<>>)>>)
    ELSE IF ~IsDict(policy)
    THEN Returned(<<Err(filename, "Policy must be a YAML object", -1, <<>>)>>)
    ELSE Returned(TypeErrors(policy, filename))

----------------------------------------------------------------------------
\* lint_policy_file

\* A directory entry: its suffix, what open() does on it, what
\* yaml.safe_load does on its text, and the document it decodes to.
Entry(suffix, open, load, doc) ==
    [suffix |-> suffix, open |-> open, load |-> load, doc |-> doc]

\* What lint_policy_file returns, with the validators it ran.
Linted(errs, ran) == [errors |-> errs, calls |-> ran]

\* Variant: the catch-all handler swallows the exception ("pass").
HandleExceptionSwallowOther(filepath_, exc) ==
    CASE exc = "YAMLError" ->
           <<Err(filepath_, "YAML parsing error", -1, <<>>)>>
      [] exc = "FileNotFoundError" ->
           <<Err(filepath_, "File not found", -1, <<>>)>>
      [] exc = "PermissionError" ->
           <<Err(filepath_, "Permission denied", -1, <<>>)>>
      [] OTHER -> <<>>

\* The exception handlers, outermost last: what each exception becomes.
HandleException(filepath_, exc) ==
    CASE exc = "YAMLError" ->
           <<Err(filepath_, "YAML parsing error", -1, <<>>)>>
      [] exc = "FileNotFoundError" ->
           <<Err(filepath_, "File not found", -1, <<>>)>>
      [] exc = "PermissionError" ->
           <<Err(filepath_, "Permission denied", -1, <<>>)>>
      [] OTHER ->
           <<Err(filepath_, "Unexpected error", -1, <<>>)>>

\* The two validator calls.  errors.extend(...) of the structural result
\* happens only if the call returns; an exception leaves errors empty and
\* is handled by "except Exception".
RunValidators(filepath_, doc) ==
    LET s == ValidatePolicyStructure(doc, filepath_)
        c == ValidatePolicyContent(doc, filepath_)
    IN  IF s.raised
        THEN Linted(HandleException(filepath_, "TypeError"),
                    <<"validate_policy_structure">>)
        ELSE Linted(s.errors \o c.errors,
                    <<"validate_policy_structure", "validate_policy_content">>)

\* Variant: no "if policy is None" check before the validators.
LintPolicyFileNoNoneCheck(filepath_, entry) ==
    IF entry.open # "ok"
    THEN Linted(HandleException(filepath_, entry.open), <<>>)
    ELSE IF entry.load # "ok"
    THEN Linted(HandleException(filepath_, entry.load), <<>>)
    ELSE RunValidators(filepath_, entry.doc)

LintPolicyFile(filepath_, entry) ==
    IF entry.open # "ok"
    THEN Linted(HandleException(filepath_, entry.open), <<>>)
    ELSE IF entry.load # "ok"
    THEN Linted(HandleException(filepath_, entry.load), <<>>)
    ELSE IF entry.doc = VNull
    THEN Linted(<<Err(filepath_, "Empty or invalid YAML file", -1, <<>>)>>, <<>>)
    ELSE RunValidators(filepath_, entry.doc)

----------------------------------------------------------------------------
\* main: the pieces of the loop body.

\* A command-line pattern: a literal relative path, or "*".
Literal(i) == [kind |-> "literal", name |-> i]
Star == [kind |-> "star", name |-> 0]

\* The orders in which a finite set can be listed.
Orders(S) ==
    {o \in [1..Cardinality(S) -> S] : \A i, j \in DOMAIN o : i # j => o[i] # o[j]}

\* Path(".").glob(pattern): the existing paths the pattern matches, in an
\* order the directory decides.  A literal that names no entry matches
\* nothing.
Glob(pattern, dir) ==
    IF pattern.kind = "star" THEN Orders(DOMAIN dir)
    ELSE IF pattern.name \in DOMAIN dir THEN {<<pattern.name>>}
    ELSE {<<>>}

\* str.lower(), on the letters the suffixes use
LowerChar(c) ==
    CASE c = "Y" -> "y"
      [] c = "A" -> "a"
      [] c = "M" -> "m"
      [] c = "L" -> "l"
      [] c = "T" -> "t"
      [] c = "X" -> "x"
      [] OTHER -> c

Lower(s) == [i \in 1..Len(s) |-> LowerChar(s[i])]

\* filepath.suffix.lower() in [".yaml", ".yml"]
IsPolicyFile(entry) ==
    \E i \in 1..Len(yaml_suffixes) : yaml_suffixes[i] = Lower(entry.suffix)

----------------------------------------------------------------------------
\* Inputs: documents, directory entries, command lines.

sP == <<"p">>
sR1 == <<"r","1">>
sExtreme == <<"e","x","t","r","e","m","e">>
sUnknown == <<"u","n","k","n","o","w","n">>
sNotAList == <<"n","o","t","-","a","-","l","i","s","t">>

OptItem(key, present, value) ==
    IF present THEN <<Item(VStr(key), value)>> ELSE <<>>

SeverityValues ==
    {VStr(sHigh), VStr(sCritical), VStr(sExtreme), VStr(<<"H","i","g","h">>),
     VInt(1), VNull}

MappingRules ==
    {VMap(OptItem(sId, hasId, VStr(sR1))
          \o OptItem(sDescription, hasDesc, VStr(sP))
          \o sev) :
        hasId \in BOOLEAN, hasDesc \in BOOLEAN,
        sev \in {<<>>} \cup {<<Item(VStr(sSeverity), v)>> : v \in SeverityValues}}

Rules == MappingRules \cup {VStr(sId), VNull}

ValidRule ==
    VMap(<<Item(VStr(sId), VStr(sR1)), Item(VStr(sDescription), VStr(sP)),
           Item(VStr(sSeverity), VStr(sHigh))>>)

RuleLists == UNION {[1..n -> Rules] : n \in 0..MaxRules}

\* Documents that vary the rules.
DocsRules ==
    {VMap(OptItem(sName, hasName, VStr(sP))
          \o <<Item(VStr(sVersion), VStr(sR1)), Item(VStr(sRules), VList(rl))>>) :
        hasName \in BOOLEAN, rl \in RuleLists}

\* Documents that vary the top-level keys.
DocsTop ==
    {VMap(n \o v \o r \o ty) :
        n \in {<<>>, <<Item(VStr(sName), VStr(sP))>>, <<Item(VStr(sName), VInt(1))>>},
        v \in {<<>>, <<Item(VStr(sVersion), VStr(sR1))>>,
                <<Item(VStr(sVersion), VInt(1))>>},
        r \in {<<>>, <<Item(VStr(sRules), VStr(sNotAList))>>,
                <<Item(VStr(sRules), VMap(<<>>))>>,
                <<Item(VStr(sRules), VList(<<>>))>>,
                <<Item(VStr(sRules), VList(<<ValidRule>>))>>},
        ty \in {<<>>, <<Item(VStr(sType), VStr(sSecurity))>>,
                 <<Item(VStr(sType), VStr(sObservability))>>,
                 <<Item(VStr(sType), VStr(<<"S">> \o Tail(sSecurity)))>>,
                 <<Item(VStr(sType), VStr(sUnknown))>>,
                 <<Item(VStr(sType), VInt(1))>>}}

\* Documents that are no mapping, and mappings with other keys.
DocsOther ==
    {VNull, VBool(TRUE), VBool(FALSE), VInt(0), VInt(1),
     VStr(<<>>), VStr(sP), VStr(sName), VStr(<<"r","e">> \o sName),
     VStr(sRules), VList(<<>>), VList(<<VStr(sP)>>), VList(<<VStr(sName)>>),
     VList(<<VInt(1), VStr(sVersion)>>),
     VList(<<VStr(sName), VStr(sVersion), VStr(sRules)>>),
     VMap(<<Item(VInt(1), VStr(sP))>>),
     VMap(<<Item(VStr(sP), VStr(sP))>>)}

Docs == DocsRules \cup DocsTop \cup DocsOther

\* Scenario 1 of the tests: the valid minimal policy.
ValidDoc ==
    VMap(<<Item(VStr(sName), VStr(sP)), Item(VStr(sVersion), VStr(sR1)),
           Item(VStr(sRules), VList(<<ValidRule>>))>>)

\* Directory entries: unopenable, undecodable, and decodable ones.
Entries ==
    {Entry(sfxYaml, o, "ok", VNull) :
        o \in {"FileNotFoundError", "PermissionError", "IsADirectoryError"}}
    \cup {Entry(sfxYaml, "ok", l, VNull) : l \in {"YAMLError", "UnicodeDecodeError"}}
    \cup {Entry(sfxYaml, "ok", "ok", d) : d \in {VNull, ValidDoc, VMap(<<>>), VInt(1)}}
    \cup {Entry(<<".","Y","M","L">>, "ok", "ok", ValidDoc),
          Entry(<<".","t","x","t">>, "ok", "ok", VMap(<<>>))}

Dirs == UNION {[1..n -> Entries] : n \in 0..MaxFiles}

Patterns == {Literal(i) : i \in 1..(MaxFiles + 1)} \cup {Star}

CommandLines == UNION {[1..n -> Patterns] : n \in 0..MaxArgs}

----------------------------------------------------------------------------
\* main

\* all_errors.extend(errors)
Accumulate(all, errs) == all \o errs

\* Variant: the exit status is the number of errors.
ExitStatusCount(all) == Len(all)

\* sys.exit(1) if all_errors else sys.exit(0)
ExitStatus(all) == IF Len(all) > 0 THEN 1 ELSE 0

Init ==
    /\ argv \in CommandLines
    /\ fs \in Dirs
    /\ pc = "start"
    /\ pattern_i = 1
    /\ matches = <<>>
    /\ filepath = 0
    /\ document = VNull
    /\ errors = <<>>
    /\ raised = FALSE
    /\ calls = <<>>
    /\ all_errors = <<>>
    /\ files_processed = 0
    /\ linted = <<>>
    /\ report = <<>>
    /\ status = -1

\* parse_args() accepts the command line; the accumulators are set up.
ParseArgs ==
    /\ pc = "start"
    /\ Len(argv) > 0
    /\ pc' = "loop"
    /\ all_errors' = <<>>
    /\ files_processed' = 0
    /\ UNCHANGED <<argv, fs, pattern_i, matches, filepath, document, errors,
                   raised, calls, linted, report, status>>

\* parse_args() rejects a command line without files (nargs="+"):
\* argparse prints the usage and exits with status 2.
UsageError ==
    /\ pc = "start"
    /\ Len(argv) = 0
    /\ pc' = "exit"
    /\ status' = 2
    /\ UNCHANGED <<argv, fs, pattern_i, matches, filepath, document, errors,
                   raised, calls, all_errors, files_processed, linted, report>>

\* The outer loop takes the next pattern and globs it.
GlobPattern ==
    /\ pc = "loop"
    /\ matches = <<>>
    /\ pattern_i <= Len(argv)
    /\ \E m \in Glob(argv[pattern_i], fs) : matches' = m
    /\ pattern_i' = pattern_i + 1
    /\ UNCHANGED <<argv, fs, pc, filepath, document, errors, raised, calls,
                   all_errors, files_processed, linted, report, status>>

\* The inner loop body for a matched path with a policy suffix.
LintMatchedFile ==
    /\ pc = "loop"
    /\ matches # <<>>
    /\ IsPolicyFile(fs[Head(matches)])
    /\ LET r == LintPolicyFile(Head(matches), fs[Head(matches)])
       IN  /\ errors' = r.errors
           /\ calls' = r.calls
           /\ all_errors' = Accumulate(all_errors, r.errors)
    /\ filepath' = Head(matches)
    /\ matches' = Tail(matches)
    /\ files_processed' = files_processed + 1
    /\ linted' = Append(linted, Head(matches))
    /\ UNCHANGED <<argv, fs, pc, pattern_i, document, raised, report, status>>

\* The inner loop body for a matched path with another suffix: skipped.
SkipMatchedFile ==
    /\ pc = "loop"
    /\ matches # <<>>
    /\ ~IsPolicyFile(fs[Head(matches)])
    /\ filepath' = Head(matches)
    /\ matches' = Tail(matches)
    /\ UNCHANGED <<argv, fs, pc, pattern_i, document, errors, raised, calls,
                   all_errors, files_processed, linted, report, status>>

\* Both loops are over: the report is printed and the process exits.
Report ==
    /\ pc = "loop"
    /\ matches = <<>>
    /\ pattern_i > Len(argv)
    /\ report' = all_errors
    /\ status' = ExitStatus(all_errors)
    /\ pc' = "exit"
    /\ UNCHANGED <<argv, fs, pattern_i, matches, filepath, document, errors,
                   raised, calls, all_errors, files_processed, linted>>

Next ==
    \/ ParseArgs
    \/ UsageError
    \/ GlobPattern
    \/ LintMatchedFile
    \/ SkipMatchedFile
    \/ Report

Spec == Init /\ [][Next]_vars

----------------------------------------------------------------------------
\* The three functions called directly, each on one document.

InitUnit ==
    /\ document \in Docs
    /\ fs = <<Entry(sfxYaml, "ok", "ok", document)>>
    /\ argv = <<>>
    /\ pc = "call"
    /\ pattern_i = 1
    /\ matches = <<>>
    /\ filepath = 0
    /\ errors = <<>>
    /\ raised = FALSE
    /\ calls = <<>>
    /\ all_errors = <<>>
    /\ files_processed = 0
    /\ linted = <<>>
    /\ report = <<>>
    /\ status = -1

CallValidatePolicyStructure ==
    /\ pc = "call"
    /\ LET r == ValidatePolicyStructure(document, 1)
       IN  errors' = r.errors /\ raised' = r.raised
    /\ calls' = <<"validate_policy_structure">>
    /\ pc' = "validate_policy_structure"
    /\ UNCHANGED <<argv, fs, pattern_i, matches, filepath, document, all_errors,
                   files_processed, linted, report, status>>

CallValidatePolicyContent ==
    /\ pc = "call"
    /\ LET r == ValidatePolicyContent(document, 1)
       IN  errors' = r.errors /\ raised' = r.raised
    /\ calls' = <<"validate_policy_content">>
    /\ pc' = "validate_policy_content"
    /\ UNCHANGED <<argv, fs, pattern_i, matches, filepath, document, all_errors,
                   files_processed, linted, report, status>>

CallLintPolicyFile ==
    /\ pc = "call"
    /\ LET r == LintPolicyFile(1, fs[1])
       IN  errors' = r.errors /\ calls' = r.calls
    /\ raised' = FALSE
    /\ filepath' = 1
    /\ pc' = "lint_policy_file"
    /\ UNCHANGED <<argv, fs, pattern_i, matches, document, all_errors,
                   files_processed, linted, report, status>>

NextUnit ==
    \/ CallValidatePolicyStructure
    \/ CallValidatePolicyContent
    \/ CallLintPolicyFile

SpecUnit == InitUnit /\ [][NextUnit]_vars

----------------------------------------------------------------------------
\* Vocabulary of the properties, stated without the validators' operators.

\* The document is a mapping that holds the key.
HasKey(d, key) ==
    IsDict(d) /\ \E i \in 1..Len(d.items) : d.items[i].k = VStr(key)

\* The entries of a list that satisfy a test, in order.
RuleEntries(errs) == SelectSeq(errs, LAMBDA e : e.idx >= 0)
EntriesOfRule(errs, i) == SelectSeq(errs, LAMBDA e : e.idx = i)
CountOf(errs, i, kind, text) ==
    Len(SelectSeq(errs, LAMBDA e : e.idx = i /\ e.kind = kind /\ e.text = text))
CountKind(errs, i, kind) ==
    Len(SelectSeq(errs, LAMBDA e : e.idx = i /\ e.kind = kind))

\* The keys of required order name, version, rules that the document lacks.
AbsentRequired(d) ==
    SelectSeq(<<sName, sVersion, sRules>>, LAMBDA k : ~HasKey(d, k))

SeverityNames == {sLow, sMedium, sHigh, sCritical}
TypeNames == {sSecurity, sCompliance, sPerformance, sObservability}

\* The values Python takes for false.
Falsy == {VNull, VBool(FALSE), VInt(0), VStr(<<>>), VList(<<>>), VMap(<<>>)}

\* C3: for every mapping document, validate_policy_structure returns one
\* "Missing required key" entry for each of name, version, rules that is
\* absent and none for a present key, in the order name, version, rules,
\* before any other entry.
C3_MissingKeysExactAndFirst ==
    (pc = "validate_policy_structure" /\ IsDict(document)) =>
        LET absent == AbsentRequired(document)
            m == Len(absent)
        IN  /\ ~raised
            /\ Len(errors) >= m
            /\ \A i \in 1..m :
                   errors[i] = Err(1, "Missing required key", -1, absent[i])
            /\ \A i \in (m + 1)..Len(errors) :
                   errors[i].kind # "Missing required key"

\* C3 witness: a mapping without name and rules whose version is no string:
\* two missing-key entries, then the version entry.
C3_Witness ==
    /\ pc = "validate_policy_structure"
    /\ IsDict(document)
    /\ AbsentRequired(document) = <<sName, sRules>>
    /\ Len(errors) = 3
    /\ errors[3].kind = "'version' must be a string"

\* C4: for a document whose rules value is a sequence, the entries of rule
\* index i are exactly one "must be a dictionary" entry when the element is
\* no mapping, and otherwise one "missing" entry per absent field among id,
\* description, severity plus one "invalid severity" entry exactly when
\* severity is present with a value outside low, medium, high, critical; so
\* a mapping rule has 0 to 3 entries, never both severity entries, and the
\* per-rule entries are those of the rules in increasing index order.
C4_PerRuleErrors ==
    (/\ pc = "validate_policy_structure"
     /\ HasKey(document, sRules)
     /\ IsList(GetItem(document, sRules))) =>
        LET rules == GetItem(document, sRules).e
            per == RuleEntries(errors)
            Missing(i, f) == CountOf(errors, i, "Rule missing field", f)
            Invalid(i) == CountKind(errors, i, "Rule invalid severity")
            NotDict(i) == CountKind(errors, i, "Rule must be a dictionary")
            Total(i) == Len(EntriesOfRule(errors, i))
        IN  /\ ~raised
            /\ \A j \in 1..Len(per) : per[j].idx < Len(rules)
            /\ \A j, k \in 1..Len(per) : j < k => per[j].idx <= per[k].idx
            /\ \A i \in 0..(Len(rules) - 1) :
                   LET rule == rules[i + 1]
                   IN  IF ~IsDict(rule)
                       THEN NotDict(i) = 1 /\ Total(i) = 1
                       ELSE /\ NotDict(i) = 0
                            /\ \A f \in {sId, sDescription, sSeverity} :
                                   Missing(i, f) = IF HasKey(rule, f) THEN 0 ELSE 1
                            /\ Invalid(i) =
                                   IF /\ HasKey(rule, sSeverity)
                                      /\ GetItem(rule, sSeverity) \notin
                                             {VStr(n) : n \in SeverityNames}
                                   THEN 1 ELSE 0
                            /\ Total(i) = Missing(i, sId) + Missing(i, sDescription)
                                          + Missing(i, sSeverity) + Invalid(i)
                            /\ Total(i) <= 3
                            /\ Missing(i, sSeverity) + Invalid(i) <= 1

\* C4 witness: rule 0 is no mapping, rule 1 is a mapping without id whose
\* severity is not a valid one: three per-rule entries, in index order.
C4_Witness ==
    /\ pc = "validate_policy_structure"
    /\ HasKey(document, sRules)
    /\ IsList(GetItem(document, sRules))
    /\ Len(RuleEntries(errors)) = 3
    /\ RuleEntries(errors)[1].kind = "Rule must be a dictionary"
    /\ RuleEntries(errors)[2] = Err(1, "Rule missing field", 1, sId)
    /\ RuleEntries(errors)[3] = Err(1, "Rule invalid severity", 1, sExtreme)

\* C5: validate_policy_content returns exactly ["Policy file is empty"] for
\* a falsy document, exactly ["Policy must be a YAML object"] for a
\* non-falsy document that is no mapping, and for a non-empty mapping one
\* "Invalid policy type" entry when type is present with a value outside
\* security, compliance, performance, observability, and nothing otherwise.
C5_ContentValidator ==
    pc = "validate_policy_content" =>
        /\ ~raised
        /\ IF document \in Falsy
           THEN errors = <<Err(1, "Policy file is empty", -1, <<>>)>>
           ELSE IF ~IsDict(document)
           THEN errors = <<Err(1, "Policy must be a YAML object", -1, <<>>)>>
           ELSE IF /\ HasKey(document, sType)
                   /\ GetItem(document, sType) \notin {VStr(n) : n \in TypeNames}
           THEN /\ Len(errors) = 1
                /\ errors[1].kind = "Invalid policy type"
                /\ errors[1].file = 1
           ELSE errors = <<>>

\* C5 witness: a non-empty mapping whose type is "unknown".
C5_Witness ==
    /\ pc = "validate_policy_content"
    /\ HasKey(document, sType)
    /\ errors = <<Err(1, "Invalid policy type", -1, sUnknown)>>

\* A rule, and a document, that the validators have nothing to say about.
WellFormedRule(rule) ==
    /\ IsDict(rule)
    /\ HasKey(rule, sId)
    /\ HasKey(rule, sDescription)
    /\ HasKey(rule, sSeverity)
    /\ GetItem(rule, sSeverity) \in {VStr(n) : n \in SeverityNames}

WellFormed(d) ==
    /\ IsDict(d)
    /\ Len(d.items) > 0
    /\ HasKey(d, sName) /\ IsStr(GetItem(d, sName))
    /\ HasKey(d, sVersion) /\ IsStr(GetItem(d, sVersion))
    /\ HasKey(d, sRules) /\ IsList(GetItem(d, sRules))
    /\ \A i \in 1..Len(GetItem(d, sRules).e) :
           WellFormedRule(GetItem(d, sRules).e[i])
    /\ HasKey(d, sType) => GetItem(d, sType) \in {VStr(n) : n \in TypeNames}

\* C10: lint_policy_file returns no error exactly when the document is a
\* non-empty mapping in which name and version are present strings, rules
\* is a present sequence of mappings that each hold id, description and a
\* severity among low, medium, high, critical, and type is absent or among
\* security, compliance, performance, observability.
C10_NoErrorsIffWellFormed ==
    pc = "lint_policy_file" => ((errors = <<>>) <=> WellFormed(document))

\* C10 witness: a policy with a rule and the type observability passes.
C10_Witness ==
    /\ pc = "lint_policy_file"
    /\ errors = <<>>
    /\ HasKey(document, sType)
    /\ GetItem(document, sType) = VStr(sObservability)
    /\ Len(GetItem(document, sRules).e) = 1

\* C1: validate_policy_structure raises for no decoded document, whatever
\* its shape, and lint_policy_file reports no "Unexpected error" for a
\* document that was read and decoded.
C1_NoExceptionForAnyShape ==
    /\ pc = "validate_policy_structure" => ~raised
    /\ pc = "lint_policy_file" =>
           \A i \in 1..Len(errors) : errors[i].kind # "Unexpected error"

\* C2: for every decoded document that is not null, lint_policy_file runs
\* both validators and returns the structural errors followed by the
\* content errors; the empty mapping yields the three missing-key errors
\* and then "Policy file is empty".
C2_BothValidatorsAlwaysRun ==
    (pc = "lint_policy_file" /\ document # VNull) =>
        /\ calls = <<"validate_policy_structure", "validate_policy_content">>
        /\ errors = ValidatePolicyStructure(document, 1).errors
                     \o ValidatePolicyContent(document, 1).errors
        /\ document = VMap(<<>>) =>
               errors = <<Err(1, "Missing required key", -1, sName),
                          Err(1, "Missing required key", -1, sVersion),
                          Err(1, "Missing required key", -1, sRules),
                          Err(1, "Policy file is empty", -1, <<>>)>>

----------------------------------------------------------------------------
\* Vocabulary of the properties of a run.

\* The policy files a pattern matches.
MatchedPolicyFiles(pattern) ==
    {f \in DOMAIN fs :
        /\ pattern.kind = "star" \/ pattern.name = f
        /\ Lower(fs[f].suffix) \in {sfxYaml, sfxYml}}

RECURSIVE CountMatched(_)
CountMatched(k) ==
    IF k = 0 THEN 0
    ELSE Cardinality(MatchedPolicyFiles(argv[k])) + CountMatched(k - 1)

\* The errors of the given paths, one file after the other.
RECURSIVE ErrorsOf(_)
ErrorsOf(paths) ==
    IF Len(paths) = 0 THEN <<>>
    ELSE LintPolicyFile(Head(paths), fs[Head(paths)]).errors \o ErrorsOf(Tail(paths))

\* Processing the entry raises an exception inside lint_policy_file.
Raises(entry) ==
    \/ entry.open # "ok"
    \/ entry.load # "ok"
    \/ entry.doc # VNull /\ ValidatePolicyStructure(entry.doc, 0).raised

\* lint_policy_file has just returned for filepath.
JustLinted == pc = "loop" /\ Len(linted) > 0 /\ linted[Len(linted)] = filepath

\* C7: lint_policy_file returns exactly one error and runs no validator
\* when the read fails (missing, permission denied, other fault), when the
\* decode fails, and when the document decodes to null.
C7_FaultsShortCircuit ==
    JustLinted =>
        LET entry == fs[filepath]
            One(kind) == /\ errors = <<Err(filepath, kind, -1, <<>>)>>
                         /\ calls = <<>>
        IN  /\ entry.open = "FileNotFoundError" => One("File not found")
            /\ entry.open = "PermissionError" => One("Permission denied")
            /\ entry.open = "IsADirectoryError" => One("Unexpected error")
            /\ (entry.open = "ok" /\ entry.load = "YAMLError") =>
                   One("YAML parsing error")
            /\ (entry.open = "ok" /\ entry.load = "UnicodeDecodeError") =>
                   One("Unexpected error")
            /\ (entry.open = "ok" /\ entry.load = "ok" /\ entry.doc = VNull) =>
                   One("Empty or invalid YAML file")

\* C7 witness: a file that decodes to null was linted after another file.
C7_Witness ==
    /\ JustLinted
    /\ Len(linted) = 2
    /\ fs[filepath].open = "ok" /\ fs[filepath].load = "ok"
    /\ fs[filepath].doc = VNull
    /\ errors = <<Err(filepath, "Empty or invalid YAML file", -1, <<>>)>>

\* C8: an exception raised while a file is processed becomes exactly one
\* error entry of that file and the run goes on: at exit every matched
\* policy file has been linted, and the report holds the errors of all
\* linted files in processing order.
C8_ExceptionsDoNotAbort ==
    (pc = "exit" /\ status # 2) =>
        /\ \A k \in 1..Len(argv) : \A f \in MatchedPolicyFiles(argv[k]) :
               \E j \in 1..Len(linted) : linted[j] = f
        /\ Len(linted) = CountMatched(Len(argv))
        /\ files_processed = Len(linted)
        /\ all_errors = ErrorsOf(linted)
        /\ report = all_errors
        /\ \A j \in 1..Len(linted) :
               Raises(fs[linted[j]]) =>
                   LET e == ErrorsOf(<<linted[j]>>)
                   IN  /\ Len(e) = 1
                       /\ e[1].file = linted[j]
                       /\ e[1].kind \in {"File not found", "Permission denied",
                                         "YAML parsing error", "Unexpected error"}

\* C8 witness: the first file linted made the structural validator raise,
\* the second is an empty mapping, and the report holds the one entry of
\* the first followed by the four of the second.
C8_Witness ==
    /\ pc = "exit"
    /\ Len(linted) = 2
    /\ linted[1] # linted[2]
    /\ fs[linted[1]].doc = VInt(1)
    /\ fs[linted[2]].doc = VMap(<<>>)
    /\ Len(report) = 5
    /\ report[1] = Err(linted[1], "Unexpected error", -1, <<>>)
    /\ report[5] = Err(linted[2], "Policy file is empty", -1, <<>>)

C6_UnreadableNamedFileReported ==
    pc = "exit" =>
        \A k \in 1..Len(argv) :
            (/\ argv[k].kind = "literal"
             /\ \/ argv[k].name \notin DOMAIN fs
                \/ fs[argv[k].name].open \in {"FileNotFoundError", "PermissionError"})
            => /\ status = 1
               /\ Len(SelectSeq(report, LAMBDA e : e.file = argv[k].name)) = 1
               /\ \A i \in 1..Len(report) :
                      report[i].file = argv[k].name =>
                          report[i].kind \in {"File not found", "Permission denied"}

====
